---- MODULE Spec2Model ----
(***************************************************************************)
(* Model of the analysis layer of instagram-ai-analytics:                  *)
(* InstagramAnalyzer (instagram_analyzer.py), the feature extractors it    *)
(* calls (clip_analysis.py, sentiment.py) and the caller that shares one   *)
(* analyzer between requests (app.py).                                     *)
(*                                                                         *)
(* Representation.                                                         *)
(*  - A Python dict entry that may be absent (or falsy: None, '', 0 for    *)
(*    an url) is a sequence of length 0 or 1: <<>> or <<v>>.               *)
(*  - An image url is identified with what the network and the models      *)
(*    answer for it: [kmeans, clip], each <<>> when the request or the     *)
(*    inference raises and <<value>> otherwise.  A caption is identified   *)
(*    with the answer of the sentiment pipeline, [label, score], or with   *)
(*    [label |-> "RAISES"] when the pipeline raises.  The extractors are   *)
(*    therefore deterministic functions of their argument.                 *)
(*  - Real numbers are exact scaled integers: CLIP scores in 1/ClipUnit,   *)
(*    sentiment scores in 1/SentUnit; a mean is the pair (sum, count) and  *)
(*    is compared by cross-multiplication.  round(x, n) is round-half-even *)
(*    on the exact value (Python rounds the nearest binary float, which    *)
(*    differs only at exact decimal ties).                                 *)
(*  - A timestamp is [valid, aware, day, hour]: whether fromisoformat      *)
(*    accepts the text, whether it carries an UTC offset, and the instant. *)
(*  - A call returns [kind |-> "return", value |-> v] or propagates an     *)
(*    exception, [kind |-> "raise", exc |-> name].                         *)
(***************************************************************************)
EXTENDS Integers, Sequences, FiniteSets, TLC

VARIABLES
    analyzer,      \* the process-wide InstagramAnalyzer instance (app.py:38)
    profile_data,  \* the caller's profile dict, passed by reference
    given,         \* the value the caller put in profile_data (history)
    ret,           \* outcome of the last call
    history,       \* outcomes of the last two analyze_profile calls on profile_data
    now,           \* wall clock read by datetime.now()
    op             \* the operation that acted last

vars == <<analyzer, profile_data, given, ret, history, now, op>>

---------------------------------------------------------------------------
(* Bounds of the model *)

MaxPosts == 2
MaxBrandPosts == 2
MaxSentimentPosts == 3
MaxCadencePosts == 3
MaxEngagementPosts == 4
MaxClock == 2

(* Units of the scaled numbers: a CLIP score s stands for s / ClipUnit, a   *)
(* sentiment score s for s / SentUnit.                                     *)
ClipUnit == 10000
SentUnit == 1000

---------------------------------------------------------------------------
(* Python built-ins *)

Min(a, b) == IF a < b THEN a ELSE b
Max(a, b) == IF a > b THEN a ELSE b

\* dict.get(key, default) on an optional entry
Get(entry, default) == IF entry = <<>> THEN default ELSE entry[1]

\* truthiness of dict.get(key) for a string entry
Truthy(entry) == entry # <<>>

RECURSIVE SeqSum(_)
SeqSum(s) == IF s = <<>> THEN 0 ELSE s[1] + SeqSum(Tail(s))

\* round(): the integer nearest to num/den, ties to the even one (den > 0)
RoundHalfEven(num, den) ==
    LET q == num \div den
        r == num % den
    IN  IF 2 * r < den THEN q
        ELSE IF 2 * r > den THEN q + 1
        ELSE IF q % 2 = 0 THEN q ELSE q + 1

\* range(a, b) as the sequence a, a+1, ..., b-1
Range(a, b) == [i \in 1..Max(b - a, 0) |-> a + i - 1]

SeqsUpTo(S, n) == UNION {[1..k -> S] : k \in 0..n}

Raise(exc) == [raise |-> exc]
Raised(r) == "raise" \in DOMAIN r
Outcome(r) == IF Raised(r) THEN [kind |-> "raise", exc |-> r.raise]
              ELSE [kind |-> "return", value |-> r]

---------------------------------------------------------------------------
(* clip_analysis.py *)

FallbackColors == <<"#000000", "#FFFFFF", "#808080">>

num_colors == 5

\* extract_colors(image_url): the k-means palette, or the fallback palette
\* when anything raises
extract_colors(image_url) ==
    IF image_url.kmeans = <<>> THEN FallbackColors ELSE image_url.kmeans[1]

\* analyze_image_clip(image_url, prompt): the model's score, or 0.0 when
\* anything raises
analyze_image_clip(image_url, prompt) ==
    IF image_url.clip = <<>> THEN 0 ELSE image_url.clip[1]

---------------------------------------------------------------------------
(* sentiment.py *)

\* analyze_sentiment(text): score if POSITIVE else -score; no try/except
analyze_sentiment(text) ==
    IF text.label = "RAISES" THEN Raise("RuntimeError")
    ELSE [score |-> IF text.label = "POSITIVE" THEN text.score ELSE -text.score]

---------------------------------------------------------------------------
(* InstagramAnalyzer.__init__ *)

NewAnalyzer ==
    [brand_keywords |-> <<"professional", "aesthetic", "beautiful",
                          "brand consistent", "high quality", "stylish",
                          "elegant", "modern">>]

---------------------------------------------------------------------------
(* InstagramAnalyzer._analyze_brand_consistency *)

BrandPrompt == "brand consistent aesthetic professional"

\* the for loop over posts: posts without an image_url are skipped, every
\* other post extends all_colors and appends one score
RECURSIVE BrandLoop(_, _)
BrandLoop(posts, acc) ==
    IF posts = <<>> THEN acc
    ELSE LET post == Head(posts)
         IN  IF Truthy(post.image_url)
             THEN BrandLoop(Tail(posts),
                    [all_colors |-> acc.all_colors
                                      \o extract_colors(post.image_url[1]),
                     aesthetic_scores |->
                        Append(acc.aesthetic_scores,
                               analyze_image_clip(post.image_url[1], BrandPrompt))])
             ELSE BrandLoop(Tail(posts), acc)

\* color_frequency: a dict, i.e. its keys in insertion order and their counts
RECURSIVE ColorFrequency(_, _)
ColorFrequency(all_colors, freq) ==
    IF all_colors = <<>> THEN freq
    ELSE LET color == Head(all_colors)
         IN  ColorFrequency(Tail(all_colors),
               IF color \in DOMAIN freq.count
               THEN [freq EXCEPT !.count[color] = @ + 1]
               ELSE [keys |-> Append(freq.keys, color),
                     count |-> freq.count @@ (color :> 1)])

EmptyDict == [keys |-> <<>>, count |-> <<>>]

\* a sort that puts an element before the earlier elements of equal key
InsertDescLastFirst(sorted, x, key) ==
    LET p == Cardinality({i \in 1..Len(sorted) : key[sorted[i]] > key[x]})
    IN  SubSeq(sorted, 1, p) \o <<x>> \o SubSeq(sorted, p + 1, Len(sorted))

\* one step of the stable descending sort: x, later in the input than all of
\* sorted, goes after every element whose key is greater or equal
InsertDesc(sorted, x, key) ==
    LET p == Cardinality({i \in 1..Len(sorted) : key[sorted[i]] >= key[x]})
    IN  SubSeq(sorted, 1, p) \o <<x>> \o SubSeq(sorted, p + 1, Len(sorted))

\* sorted(keys, key=lambda x: key[x], reverse=True): stable, equal keys keep
\* their input order
RECURSIVE SortedReverse(_, _, _)
SortedReverse(keys, key, sorted) ==
    IF keys = <<>> THEN sorted
    ELSE SortedReverse(Tail(keys), key, InsertDesc(sorted, Head(keys), key))

\* s[:n]
Slice(s, n) == SubSeq(s, 1, Min(n, Len(s)))

analyze_brand_consistency(posts) ==
    LET loop == BrandLoop(posts, [all_colors |-> <<>>, aesthetic_scores |-> <<>>])
        color_frequency == ColorFrequency(loop.all_colors, EmptyDict)
        dominant_colors ==
            Slice(SortedReverse(color_frequency.keys, color_frequency.count, <<>>), 5)
        scores == loop.aesthetic_scores
        \* consistency_score = np.mean(scores) * 100 if scores else 0, as num/den
        num == IF scores # <<>> THEN SeqSum(scores) * 100 ELSE 0
        den == IF scores # <<>> THEN Len(scores) * ClipUnit ELSE 1
    IN  [consistency_score |-> RoundHalfEven(num * 10, den),  \* in tenths
         dominant_colors |-> dominant_colors,
         color_variance |-> IF num > 80 * den THEN "Low"
                            ELSE IF num > 60 * den THEN "Moderate" ELSE "High",
         brand_alignment |-> IF num > 75 * den THEN "Strong"
                             ELSE IF num > 50 * den THEN "Moderate" ELSE "Weak"]

---------------------------------------------------------------------------
(* InstagramAnalyzer._analyze_engagement *)

\* the trend with >= for >: equal windows read as growth
TrendOrEqual(recent, older) ==
    IF recent.num * older.den >= older.num * recent.den THEN "Increasing"
    ELSE IF recent.num * older.den < older.num * recent.den THEN "Decreasing"
    ELSE "Stable"

\* "Increasing" if recent > older else "Decreasing" if recent < older else "Stable"
Trend(recent, older) ==
    IF recent.num * older.den > older.num * recent.den THEN "Increasing"
    ELSE IF recent.num * older.den < older.num * recent.den THEN "Decreasing"
    ELSE "Stable"

\* statistics.mean([likes[i] + comments[i] for i in idx]), as num/den
\* (idx holds Python's 0-based indices)
WindowMean(likes, comments, idx) ==
    [num |-> SeqSum([k \in 1..Len(idx) |-> likes[idx[k] + 1] + comments[idx[k] + 1]]),
     den |-> Len(idx)]

analyze_engagement(posts, followers) ==
    IF posts = <<>> THEN [error |-> "No posts to analyze"]
    ELSE
    LET n == Len(posts)
        likes == [i \in 1..n |-> Get(posts[i].likes, 0)]
        comments == [i \in 1..n |-> Get(posts[i].comments, 0)]
        \* avg_likes = SeqSum(likes) / n, avg_comments = SeqSum(comments) / n
        recent_engagement == WindowMean(likes, comments, Range(0, Min(3, n)))
        older_engagement == WindowMean(likes, comments, Range(Max(0, n - 3), n))
    IN  [avg_likes |-> RoundHalfEven(SeqSum(likes), n),
         avg_comments |-> RoundHalfEven(SeqSum(comments), n),
         \* in hundredths of a percent point
         engagement_rate |->
            IF followers > 0
            THEN RoundHalfEven((SeqSum(likes) + SeqSum(comments)) * 100 * 100,
                               n * followers)
            ELSE 0,
         trend |-> Trend(recent_engagement, older_engagement)]

---------------------------------------------------------------------------
(* InstagramAnalyzer._analyze_sentiment *)

\* the for loop over posts: captions absent or empty are skipped; an
\* exception of analyze_sentiment leaves the loop and the method
RECURSIVE SentimentLoop(_, _)
SentimentLoop(posts, sentiments) ==
    IF posts = <<>> THEN [sentiments |-> sentiments]
    ELSE LET post == Head(posts)
         IN  IF Truthy(post.caption)
             THEN LET sentiment_score == analyze_sentiment(post.caption[1])
                  IN  IF Raised(sentiment_score) THEN sentiment_score
                      ELSE SentimentLoop(Tail(posts),
                                         Append(sentiments, sentiment_score.score))
             ELSE SentimentLoop(Tail(posts), sentiments)

analyze_sentiment_posts(posts) ==
    LET loop == SentimentLoop(posts, <<>>)
    IN  IF Raised(loop) THEN loop
        ELSE IF loop.sentiments = <<>> THEN [error |-> "No captions to analyze"]
        ELSE
        \* avg_sentiment = num / den
        LET num == SeqSum(loop.sentiments)
            den == Len(loop.sentiments) * SentUnit
        IN  [overall |-> RoundHalfEven(num * 100, den),  \* in hundredths
             trend |-> IF num > 0 THEN "Positive" ELSE "Negative",
             emotional_tone |->
                IF 10 * num > 3 * den THEN "Very Positive"
                ELSE IF num > 0 THEN "Positive"
                ELSE IF 10 * num > (-3) * den THEN "Neutral"
                ELSE "Negative"]

---------------------------------------------------------------------------
(* InstagramAnalyzer._analyze_posting_patterns *)

\* datetime.fromisoformat(text.replace('Z', '+00:00'))
fromisoformat(text) ==
    IF ~text.valid THEN Raise("ValueError")
    ELSE [aware |-> text.aware, hours |-> text.day * 24 + text.hour,
          hour |-> text.hour]

SeqMax(s) == CHOOSE x \in {s[i] : i \in DOMAIN s} : \A i \in DOMAIN s : s[i] <= x
SeqMin(s) == CHOOSE x \in {s[i] : i \in DOMAIN s} : \A i \in DOMAIN s : s[i] >= x

Occurrences(data, x) == Cardinality({i \in DOMAIN data : data[i] = x})

\* the smallest of the most common values
ModeSmallest(data) ==
    LET best == SeqMax([i \in DOMAIN data |-> Occurrences(data, data[i])])
    IN  SeqMin(SelectSeq(data, LAMBDA x : Occurrences(data, x) = best))

\* statistics.mode(data), Python >= 3.8: of the most common values, the one
\* met first in data
Mode(data) ==
    LET best == SeqMax([i \in DOMAIN data |-> Occurrences(data, data[i])])
        first == CHOOSE i \in DOMAIN data :
                    /\ Occurrences(data, data[i]) = best
                    /\ \A j \in 1..(i - 1) : Occurrences(data, data[j]) < best
    IN  data[first]

\* f"{num/den:.1f} posts/week" (num >= 0)
FormatFrequency(num, den) ==
    LET tenths == RoundHalfEven(num * 10, den)
    IN  ToString(tenths \div 10) \o "." \o ToString(tenths % 10) \o " posts/week"

\* f"{hour:02d}:00"
FormatHour(hour) ==
    (IF hour < 10 THEN "0" \o ToString(hour) ELSE ToString(hour)) \o ":00"

\* a guard that lets a single date through
NoDates(post_dates) == Len(post_dates) < 1

\* len(post_dates) < 2
TooFewDates(post_dates) == Len(post_dates) < 2

analyze_posting_patterns(posts) ==
    IF posts = <<>>
    THEN [frequency |-> "Unknown", optimal_time |-> "Unknown", consistency |-> "Unknown"]
    ELSE
    LET stamped == SelectSeq(posts, LAMBDA post : Truthy(post.timestamp))
        parsed == [i \in DOMAIN stamped |-> fromisoformat(stamped[i].timestamp[1])]
    IN  IF \E i \in DOMAIN parsed : Raised(parsed[i]) THEN Raise("ValueError")
        ELSE
        LET post_dates == parsed
        IN  IF TooFewDates(post_dates)
            THEN [frequency |-> "Insufficient data", optimal_time |-> "Unknown",
                  consistency |-> "Unknown"]
            \* max() and min() compare the datetimes: naive against aware raises
            ELSE IF \E i, j \in DOMAIN post_dates :
                        post_dates[i].aware # post_dates[j].aware
            THEN Raise("TypeError")
            ELSE
            LET instants == [i \in DOMAIN post_dates |-> post_dates[i].hours]
                \* timedelta.days: whole days
                date_range == (SeqMax(instants) - SeqMin(instants)) \div 24
                \* frequency = len(posts) / max(date_range / 7, 1), as num/den
                num == IF date_range > 7 THEN Len(posts) * 7 ELSE Len(posts)
                den == IF date_range > 7 THEN date_range ELSE 1
                post_hours == [i \in DOMAIN post_dates |-> post_dates[i].hour]
                optimal_hour == Mode(post_hours)
            IN  [frequency |-> FormatFrequency(num, den),
                 optimal_time |-> FormatHour(optimal_hour),
                 consistency |-> IF num >= den /\ num <= 5 * den THEN "Good"
                                 ELSE IF num < den THEN "Low" ELSE "High"]

---------------------------------------------------------------------------
(* InstagramAnalyzer._generate_insights, _generate_mood_suggestions *)

\* dict.get(key, default) on a result dict
GetField(dict, key, default) == IF key \in DOMAIN dict THEN dict[key] ELSE default

generate_insights(brand_analysis, engagement_analysis, sentiment_analysis) ==
    LET consistency_score == GetField(brand_analysis, "consistency_score", 0)
        engagement_rate == GetField(engagement_analysis, "engagement_rate", 0)
        overall == GetField(sentiment_analysis, "overall", 0)
    IN  (IF consistency_score > 80 * 10
         THEN <<"Excellent brand consistency maintained across posts">>
         ELSE IF consistency_score < 60 * 10
         THEN <<"Consider improving visual consistency for stronger brand identity">>
         ELSE <<>>)
        \o
        (IF engagement_rate > 3 * 100
         THEN <<"Outstanding engagement rate - well above industry average">>
         ELSE IF engagement_rate < 1 * 100
         THEN <<"Engagement rate below average - consider more interactive content">>
         ELSE <<>>)
        \o
        (IF overall > 50
         THEN <<"Very positive audience sentiment - maintain authentic voice">>
         ELSE IF overall < 0
         THEN <<"Consider adjusting content tone to improve audience sentiment">>
         ELSE <<>>)

generate_mood_suggestions(brand_analysis, sentiment_analysis) ==
    LET consistency_score == GetField(brand_analysis, "consistency_score", 0)
        sentiment_score == GetField(sentiment_analysis, "overall", 0)
    IN  (IF consistency_score > 75 * 10
         THEN <<"Maintain current aesthetic direction - it's working well">>
         ELSE <<"Develop a more cohesive visual style guide">>)
        \o
        (IF sentiment_score > 30
         THEN <<"Continue with positive, uplifting content themes">>
         ELSE <<"Incorporate more inspirational and positive messaging">>)
        \o
        <<"Experiment with user-generated content to boost engagement",
          "Consider seasonal content adjustments while maintaining brand core",
          "Analyze competitor strategies for inspiration",
          "Plan content themes around trending topics in your niche">>

---------------------------------------------------------------------------
(* InstagramAnalyzer.analyze_profile *)

RECURSIVE Reverse(_)
Reverse(s) == IF s = <<>> THEN <<>> ELSE Append(Reverse(Tail(s)), Head(s))

\* what analyze_profile returns or raises for the posts it reads
Report(data, t) ==
    LET posts == Get(data.posts, <<>>)
    IN  IF posts = <<>> THEN [error |-> "No posts found for analysis"]
        ELSE
        LET brand_analysis == analyze_brand_consistency(posts)
            engagement_analysis ==
                analyze_engagement(posts, Get(data.followers, 0))
            sentiment_analysis == analyze_sentiment_posts(posts)
            posting_analysis == analyze_posting_patterns(posts)
        IN  IF Raised(sentiment_analysis) THEN sentiment_analysis
            ELSE IF Raised(posting_analysis) THEN posting_analysis
            ELSE [profile |-> [username |-> data.username,
                               followers |-> data.followers,
                               following |-> data.following,
                               posts_count |-> Len(posts)],
                  branding |-> brand_analysis,
                  engagement |-> engagement_analysis,
                  sentiment |-> sentiment_analysis,
                  posting |-> posting_analysis,
                  insights |-> generate_insights(brand_analysis, engagement_analysis,
                                                 sentiment_analysis),
                  mood_suggestions |-> generate_mood_suggestions(brand_analysis,
                                                                 sentiment_analysis),
                  generated_at |-> ToString(t)]

\* an analyze_profile that puts the caller's posts in reverse order, in
\* place, before it reads them
analyze_profile_reversing(self, data, t) ==
    LET reversed == [data EXCEPT !.posts =
                        IF @ = <<>> THEN @ ELSE <<Reverse(@[1])>>]
    IN  [ret |-> Outcome(Report(reversed, t)), self |-> self,
         profile_data |-> reversed]

\* analyzer.analyze_profile(profile_data) at time t: the outcome, and the two
\* objects it holds by reference as the call leaves them (it assigns to
\* neither)
analyze_profile(self, data, t) ==
    [ret |-> Outcome(Report(data, t)), self |-> self, profile_data |-> data]

---------------------------------------------------------------------------
(* Inputs *)

NoPost == [image_url |-> <<>>, caption |-> <<>>, likes |-> <<>>,
           comments |-> <<>>, timestamp |-> <<>>]

Profile(username, followers, posts) ==
    [username |-> <<username>>, followers |-> followers, following |-> <<500>>,
     posts |-> <<posts>>]

\* the empty dict: every key absent
NoProfile == [username |-> <<>>, followers |-> <<>>, following |-> <<>>, posts |-> <<>>]

\* palettes as k-means returns them: num_colors lower-case hex colors, two
\* centers may round to the same color
Palettes ==
    {p \in {<<"#aa0000", "#aa0000", "#00bb00", "#0000cc", "#0000cc">>,
            <<"#0000cc", "#dddd00", "#ee00ee", "#00ffff", "#777777">>,
            <<"#777777", "#00ffff", "#ee00ee", "#dddd00", "#00bb00">>,
            <<"#000000", "#ffffff", "#aa0000", "#00bb00", "#dddd00">>} :
        Len(p) = num_colors}

\* scores of the extractor, a real in [0, 1].  The softmax over the single
\* prompt of line 19 is 1.0 whenever the inference succeeds; the other values
\* are those of an extractor that grades, such as a test double.
ClipScores == {7504, 8004, ClipUnit}

Images == [kmeans : {<<>>} \cup {<<p>> : p \in Palettes},
           clip : {<<>>} \cup {<<s>> : s \in ClipScores}]

BrandPosts ==
    {[NoPost EXCEPT !.image_url = u] : u \in {<<>>} \cup {<<i>> : i \in Images}}

\* the pipeline's score is the probability of the winning label
Captions == [label : {"POSITIVE", "NEGATIVE"}, score : {500, 504, 956, SentUnit}]
                \cup {[label |-> "RAISES", score |-> 0]}

SentimentPosts ==
    {[NoPost EXCEPT !.caption = c] : c \in {<<>>} \cup {<<t>> : t \in Captions}}

Timestamps ==
    [valid : {TRUE}, aware : {TRUE}, day : {0, 3, 14}, hour : {9, 18}]
        \cup {[valid |-> TRUE, aware |-> FALSE, day |-> 0, hour |-> 9],
              [valid |-> FALSE, aware |-> FALSE, day |-> 0, hour |-> 0]}

CadencePosts ==
    {[NoPost EXCEPT !.timestamp = t] : t \in {<<>>} \cup {<<x>> : x \in Timestamps}}

EngagementPosts ==
    {[NoPost EXCEPT !.likes = l, !.comments = c] :
        l \in {<<>>, <<100>>, <<250>>}, c \in {<<>>, <<10>>}}

GoodImage == [kmeans |-> <<CHOOSE p \in Palettes : p[1] = "#aa0000">>,
              clip |-> <<8004>>]
BadImage == [kmeans |-> <<>>, clip |-> <<>>]
GoodCaption == [label |-> "POSITIVE", score |-> 956]
GoodTime == [valid |-> TRUE, aware |-> TRUE, day |-> 0, hour |-> 9]
LaterTime == [valid |-> TRUE, aware |-> TRUE, day |-> 14, hour |-> 18]

\* posts as a retrieval may deliver them: complete, or with fields missing,
\* an image that cannot be fetched, a caption the pipeline rejects, a
\* timestamp that is no ISO-8601 text
MixedPosts ==
    {[image_url |-> <<GoodImage>>, caption |-> <<GoodCaption>>, likes |-> <<100>>,
      comments |-> <<10>>, timestamp |-> <<GoodTime>>],
     [image_url |-> <<BadImage>>, caption |-> <<[label |-> "NEGATIVE", score |-> 504]>>,
      likes |-> <<250>>, comments |-> <<>>, timestamp |-> <<LaterTime>>],
     NoPost,
     [NoPost EXCEPT !.caption = <<[label |-> "RAISES", score |-> 0]>>],
     [NoPost EXCEPT !.timestamp =
        <<[valid |-> FALSE, aware |-> FALSE, day |-> 0, hour |-> 0]>>],
     [NoPost EXCEPT !.image_url = <<GoodImage>>, !.likes = <<100>>]}

Profiles ==
    {Profile("nasa", f, posts) :
        f \in {<<>>, <<10000>>}, posts \in SeqsUpTo(MixedPosts, MaxPosts)}

---------------------------------------------------------------------------
(* The service: app.py shares one analyzer between all requests *)

NoOutcome == [kind |-> "none"]

Start(data) ==
    /\ analyzer = NewAnalyzer
    /\ profile_data = data
    /\ given = data
    /\ ret = NoOutcome
    /\ history = <<>>
    /\ now = 0
    /\ op = "input"

Init == Start(NoProfile)

\* app.py:64  profile_data = await scrape_instagram_profile(...): a new dict
Scrape ==
    /\ \E data \in Profiles :
        /\ profile_data' = data
        /\ given' = data
    /\ history' = <<>>
    /\ ret' = NoOutcome
    /\ op' = "scrape"
    /\ UNCHANGED <<analyzer, now>>

\* app.py:67  analysis = analyzer.analyze_profile(profile_data)
AnalyzeProfile ==
    /\ LET call == analyze_profile(analyzer, profile_data, now)
       IN  /\ ret' = call.ret
           /\ analyzer' = call.self
           /\ profile_data' = call.profile_data
           /\ history' = IF Len(history) = 2 THEN <<history[2], call.ret>>
                         ELSE Append(history, call.ret)
    /\ op' = "analyze_profile"
    /\ UNCHANGED <<given, now>>

\* wall-clock time passes
Tick ==
    /\ now < MaxClock
    /\ now' = now + 1
    /\ UNCHANGED <<analyzer, profile_data, given, ret, history, op>>

Next == Scrape \/ AnalyzeProfile \/ Tick

Spec == Init /\ [][Next]_vars

---------------------------------------------------------------------------
(* The aggregators, each applied once to an input drawn at the start *)

InitBrand ==
    \E posts \in SeqsUpTo(BrandPosts, MaxBrandPosts) :
        Start(Profile("nasa", <<10000>>, posts))

CallBrand ==
    /\ op = "input"
    /\ ret' = Outcome(analyze_brand_consistency(Get(profile_data.posts, <<>>)))
    /\ op' = "brand"
    /\ UNCHANGED <<analyzer, profile_data, given, history, now>>

NextBrand == CallBrand

SpecBrand == InitBrand /\ [][NextBrand]_vars

InitEngagement ==
    \E posts \in SeqsUpTo(EngagementPosts, MaxEngagementPosts),
       f \in {<<>>, <<0>>, <<10000>>} :
        Start(Profile("nasa", f, posts))

CallEngagement ==
    /\ op = "input"
    /\ ret' = Outcome(analyze_engagement(Get(profile_data.posts, <<>>),
                                         Get(profile_data.followers, 0)))
    /\ op' = "engagement"
    /\ UNCHANGED <<analyzer, profile_data, given, history, now>>

NextEngagement == CallEngagement

SpecEngagement == InitEngagement /\ [][NextEngagement]_vars

InitSentiment ==
    \E posts \in SeqsUpTo(SentimentPosts, MaxSentimentPosts) :
        Start(Profile("nasa", <<10000>>, posts))

CallSentiment ==
    /\ op = "input"
    /\ ret' = Outcome(analyze_sentiment_posts(Get(profile_data.posts, <<>>)))
    /\ op' = "sentiment"
    /\ UNCHANGED <<analyzer, profile_data, given, history, now>>

NextSentiment == CallSentiment

SpecSentiment == InitSentiment /\ [][NextSentiment]_vars

InitCadence ==
    \E posts \in SeqsUpTo(CadencePosts, MaxCadencePosts) :
        Start(Profile("nasa", <<10000>>, posts))

CallPosting ==
    /\ op = "input"
    /\ ret' = Outcome(analyze_posting_patterns(Get(profile_data.posts, <<>>)))
    /\ op' = "posting"
    /\ UNCHANGED <<analyzer, profile_data, given, history, now>>

NextCadence == CallPosting

SpecCadence == InitCadence /\ [][NextCadence]_vars

---------------------------------------------------------------------------
(* Properties *)

Posts == Get(given.posts, <<>>)
Returned == ret.kind = "return"
ToSet(s) == {s[i] : i \in DOMAIN s}

ReportKeys == {"profile", "branding", "engagement", "sentiment", "posting",
               "insights", "mood_suggestions", "generated_at"}

\* C1: for every non-empty post list, whatever fields the posts lack, whatever
\* their timestamp texts are and whichever extractor calls fail,
\* analyze_profile does not raise and returns a full report or the
\* zero-posts error.
C1_NeverRaises ==
    op = "analyze_profile" /\ Posts # <<>> =>
        /\ Returned
        /\ \/ DOMAIN ret.value = ReportKeys
           \/ ret.value = [error |-> "No posts found for analysis"]

\* the image's two extractions both succeeded / both failed
Extracted(post) ==
    post.image_url # <<>> /\ post.image_url[1].kmeans # <<>>
        /\ post.image_url[1].clip # <<>>
NotExtracted(post) ==
    post.image_url # <<>> /\ post.image_url[1].kmeans = <<>>
        /\ post.image_url[1].clip = <<>>

\* C2: a post whose extraction failed contributes nothing to the brand
\* aggregate: the result is the one computed over the posts whose extraction
\* succeeded (stated for the lists in which an image fails or succeeds as a
\* whole).
C2_FailedPostsDropped ==
    op = "brand" /\ (\A i \in DOMAIN Posts :
                        Posts[i].image_url = <<>> \/ Extracted(Posts[i])
                            \/ NotExtracted(Posts[i])) =>
        /\ Returned
        /\ ret.value = analyze_brand_consistency(
                          SelectSeq(Posts, LAMBDA post : ~NotExtracted(post)))

SansGeneratedAt(outcome) ==
    IF outcome.kind = "return" /\ "generated_at" \in DOMAIN outcome.value
    THEN [outcome EXCEPT !.value.generated_at = ""]
    ELSE outcome

\* C3: analyze_profile changes neither the shared analyzer nor the profile
\* it is given, and two calls on the same profile give the same outcome but
\* for generated_at, whatever calls were made before on the analyzer.
C3_Idempotent ==
    /\ profile_data = given
    /\ analyzer = NewAnalyzer
    /\ Len(history) = 2 => SansGeneratedAt(history[1]) = SansGeneratedAt(history[2])

\* two full reports of the same profile, made at different times
C3_Witness ==
    /\ Len(history) = 2
    /\ history[1].kind = "return" /\ history[2].kind = "return"
    /\ DOMAIN history[1].value = ReportKeys
    /\ history[1].value.generated_at # history[2].value.generated_at
    /\ Len(Posts) = 2

\* the ordered strict thresholds on a value in hundredths
ToneOf(overall) ==
    IF overall > 30 THEN "Very Positive"
    ELSE IF overall > 0 THEN "Positive"
    ELSE IF overall > -30 THEN "Neutral" ELSE "Negative"

\* C4: emotional_tone and trend are the strict thresholds (>0.3, >0, >-0.3)
\* applied to the two-decimal overall of the report: overall 0.3 is
\* "Positive", overall -0.3 is "Neutral", overall 0 has trend "Negative".
C4_ThresholdsOnReported ==
    op = "sentiment" /\ Returned /\ "overall" \in DOMAIN ret.value =>
        /\ ret.value.emotional_tone = ToneOf(ret.value.overall)
        /\ ret.value.trend = (IF ret.value.overall > 0 THEN "Positive" ELSE "Negative")

\* C5: color_variance (Low >80, Moderate >60, else High) and brand_alignment
\* (Strong >75, Moderate >50, else Weak) are decided by the one-decimal
\* consistency_score of the report: 80.0 is "Moderate", 75.0 is "Moderate".
C5_ThresholdsOnReported ==
    op = "brand" /\ Returned =>
        LET score == ret.value.consistency_score
        IN  /\ ret.value.color_variance =
                  (IF score > 800 THEN "Low"
                   ELSE IF score > 600 THEN "Moderate" ELSE "High")
            /\ ret.value.brand_alignment =
                  (IF score > 750 THEN "Strong"
                   ELSE IF score > 500 THEN "Moderate" ELSE "Weak")

Stamped == SelectSeq(Posts, LAMBDA post : post.timestamp # <<>>)
Stamps == [i \in DOMAIN Stamped |-> Stamped[i].timestamp[1]]
AllParse == \A i \in DOMAIN Stamps : Stamps[i].valid
Comparable == \A i, j \in DOMAIN Stamps : Stamps[i].aware = Stamps[j].aware

\* C6: posts without a timestamp are excluded from the cadence: with at
\* least 2 timestamps the result is the one computed on the posts that have
\* one (stated for the lists whose timestamps all parse and compare).
C6_UnstampedExcluded ==
    op = "posting" /\ Len(Stamped) >= 2 /\ AllParse /\ Comparable =>
        ret = Outcome(analyze_posting_patterns(Stamped))

\* C7 as claimed: with fewer than 2 posts carrying a timestamp, every field
\* is "Insufficient data".
C7_AllInsufficient ==
    op = "posting" /\ Len(Stamped) < 2 =>
        /\ Returned
        /\ ret.value = [frequency |-> "Insufficient data",
                        optimal_time |-> "Insufficient data",
                        consistency |-> "Insufficient data"]

\* C7 as amended: with fewer than 2 posts carrying a timestamp, an
\* unparseable timestamp raises ValueError; otherwise an empty list gives
\* "Unknown" for all fields and a non-empty one frequency "Insufficient
\* data" with optimal_time and consistency "Unknown".
C7_InsufficientData ==
    op = "posting" /\ Len(Stamped) < 2 =>
        IF ~AllParse THEN ret = [kind |-> "raise", exc |-> "ValueError"]
        ELSE /\ Returned
             /\ ret.value.frequency =
                    (IF Posts = <<>> THEN "Unknown" ELSE "Insufficient data")
             /\ ret.value.optimal_time = "Unknown"
             /\ ret.value.consistency = "Unknown"

\* one post with a parseable timestamp among posts without
C7_Witness ==
    /\ op = "posting" /\ Len(Posts) = 3 /\ Len(Stamped) = 1 /\ AllParse
    /\ ret.value.frequency = "Insufficient data"

AllColors == BrandLoop(Posts, [all_colors |-> <<>>, aesthetic_scores |-> <<>>]).all_colors
CountIn(colors, color) == Cardinality({i \in DOMAIN colors : colors[i] = color})
FirstIn(colors, color) ==
    CHOOSE i \in DOMAIN colors : colors[i] = color /\ \A j \in 1..(i - 1) : colors[j] # color

\* C8: dominant_colors holds the distinct accumulated colors by descending
\* count, equal counts in first-seen order, cut to the first 5.
C8_DominantRanking ==
    op = "brand" =>
        LET dominant == ret.value.dominant_colors
            colors == AllColors
            distinct == ToSet(colors)
            count == [c \in distinct |-> CountIn(colors, c)]
            first == [c \in distinct |-> FirstIn(colors, c)]
            RankedBefore(a, b) ==
                \/ count[a] > count[b]
                \/ count[a] = count[b] /\ first[a] < first[b]
        IN  /\ Len(dominant) = Min(5, Cardinality(distinct))
            /\ ToSet(dominant) \subseteq distinct
            /\ \A i, j \in DOMAIN dominant :
                    i < j => RankedBefore(dominant[i], dominant[j])
            /\ \A c \in distinct \ ToSet(dominant) :
                    \A i \in DOMAIN dominant : RankedBefore(dominant[i], c)

\* [A,A,B,C,C] then [C,D,E,F,G]: C (3) before A (2) before B, D, E (1 each,
\* in first-seen order), F and G cut
C8_Witness ==
    /\ op = "brand"
    /\ Cardinality(ToSet(AllColors)) > 5
    /\ ret.value.dominant_colors =
            <<"#0000cc", "#aa0000", "#00bb00", "#dddd00", "#ee00ee">>

Hours == [i \in DOMAIN Stamps |-> Stamps[i].hour]
HourCount(h) == Cardinality({i \in DOMAIN Hours : Hours[i] = h})
MostFrequent(h) == \A i \in DOMAIN Hours : HourCount(Hours[i]) <= HourCount(h)
HourText(h) == CASE h = 9 -> "09:00" [] h = 18 -> "18:00" [] OTHER -> "??:??"

\* C9 as claimed: with at least 2 valid timestamps optimal_time is the most
\* frequent hour, the smallest of them when several are equally frequent.
C9_TieSmallestHour ==
    op = "posting" /\ Len(Stamped) >= 2 /\ AllParse /\ Comparable =>
        /\ Returned
        /\ \E h \in ToSet(Hours) :
            /\ MostFrequent(h)
            /\ \A g \in ToSet(Hours) : MostFrequent(g) => h <= g
            /\ ret.value.optimal_time = HourText(h)

\* C9 as amended: with at least 2 posts carrying a timestamp the call raises
\* exactly when a timestamp does not parse or aware and naive timestamps are
\* mixed; otherwise optimal_time is the most frequent hour, of several
\* equally frequent ones the one that comes first in the order of the posts,
\* as zero-padded "HH:00".
C9_TieFirstSeen ==
    op = "posting" /\ Len(Stamped) >= 2 =>
        /\ Returned <=> AllParse /\ Comparable
        /\ Returned =>
            \E i \in DOMAIN Hours :
                /\ MostFrequent(Hours[i])
                /\ \A j \in 1..(i - 1) : ~MostFrequent(Hours[j])
                /\ ret.value.optimal_time = HourText(Hours[i])

\* 18h and 9h once each, 18h first: the larger hour wins
C9_Witness ==
    /\ op = "posting" /\ Returned /\ Len(Stamped) >= 2
    /\ Hours[1] = 18 /\ HourCount(18) = HourCount(9)
    /\ ret.value.optimal_time = "18:00"

Interactions(i) == Get(Posts[i].likes, 0) + Get(Posts[i].comments, 0)
RECURSIVE SumFromTo(_, _)
SumFromTo(a, b) == IF a > b THEN 0 ELSE Interactions(a) + SumFromTo(a + 1, b)

\* C10: the trend compares the mean interactions of the first min(3, N)
\* posts with that of the last min(3, N) posts: "Increasing" when the first
\* is greater, "Decreasing" when smaller, "Stable" when equal, hence
\* "Stable" for every N <= 3; one post with 100 likes and 10 comments at
\* 10000 followers gives 100, 10, 1.10 and "Stable".
C10_EngagementTrend ==
    op = "engagement" /\ Posts # <<>> =>
        LET n == Len(Posts)
            k == Min(3, n)
            first == SumFromTo(1, k)
            last == SumFromTo(n - k + 1, n)
        IN  /\ Returned
            /\ ret.value.trend = (IF first > last THEN "Increasing"
                                  ELSE IF first < last THEN "Decreasing"
                                  ELSE "Stable")
            /\ n <= 3 => ret.value.trend = "Stable"
            /\ Posts = <<[NoPost EXCEPT !.likes = <<100>>, !.comments = <<10>>]>>
                    /\ given.followers = <<10000>> =>
                ret.value = [avg_likes |-> 100, avg_comments |-> 10,
                             engagement_rate |-> 110, trend |-> "Stable"]

\* four posts whose first three draw less than the last three
C10_Witness ==
    /\ op = "engagement" /\ Len(Posts) = 4
    /\ Interactions(1) < Interactions(4)
    /\ ret.value.trend = "Decreasing"

====
